---- MODULE Spec2Model ----
(***************************************************************************)
(* BernoulliPacketSocketClient (src/model/bernoulli_packet_socket_client.cc)*)
(* as a state machine driven by the ns-3 discrete-event scheduler.         *)
(*                                                                         *)
(* The application object, its packet socket and the scheduler's event     *)
(* list are the state.  StartApplication, StopApplication, SetRemote,      *)
(* SetPriority and the attribute writes are calls from outside; Send is    *)
(* the callback the scheduler invokes for a queued event.  NS_ASSERT is    *)
(* taken as enabled (ns-3's default build profile): a failed assertion     *)
(* terminates the run.                                                     *)
(*                                                                         *)
(* Spec is the application under its documented use, with MaxPackets,      *)
(* TimeSlot, BernoulliPr and OptionalTidPr as set at construction;         *)
(* ReconfigSpec adds the calls the interface documents as errors,          *)
(* AttributeSpec the writes of these four attributes after construction;   *)
(* IntervalSpec applies the interval computation of Send to a range of     *)
(* inputs, LiveSpec is the source of GetBernoulliClient under a fair       *)
(* scheduler, StatSpec is the delay statistics pass of main() in           *)
(* src/examples/single-bss-sld.cc.                                         *)
(***************************************************************************)
EXTENDS Integers, FiniteSets, Sequences, TLC

VARIABLES
    m_sent,            \* packets counted by Send
    m_maxPackets,      \* attribute MaxPackets (0 = infinite)
    m_timeSlot,        \* attribute TimeSlot, in time units
    m_bernoulliPr,     \* attribute BernoulliPr, a rational [n, d]
    m_priority,        \* attribute Priority
    m_optionalTid,     \* attribute OptionalTid
    m_optionalTidPr,   \* attribute OptionalTidPr, a rational [n, d]
    m_peerAddress,     \* address given to SetRemote (NoAddress before)
    m_peerAddressSet,  \* SetRemote has been called
    m_socket,          \* NullSocket, or [state, priority, peer] of the socket
    m_sendEvent,       \* EventId kept by the application
    queue,             \* scheduler: events inserted and not yet invoked
    cancelled,         \* scheduler: uids of events whose EventImpl is cancelled
    curTs,             \* scheduler: Simulator::Now()
    curUid,            \* scheduler: uid of the event being (last) invoked
    nextUid,           \* scheduler: uid the next inserted event gets
    aborted,           \* "none", or the reason the run has ended
    \* ---- observation of the run (no program field) ----
    lastOp,            \* the operation that produced this state
    lastSend,          \* what Send did, in the state it produced
    running,           \* Start was the last lifecycle call (spec: Running)
    startCount,        \* calls of StartApplication that passed, saturating at 2
    everStopped,       \* StopApplication has been called
    sentSinceStart,    \* a Send has executed since the last Start
    startTs,           \* Simulator::Now() of the last StartApplication that passed
    \* ---- the interval computation of Send, taken alone ----
    arrival,           \* [status, u, k, interval] of the last computation
    \* ---- main() of single-bss-sld.cc after Simulator::Run ----
    statPc,            \* position in main(): off, run, series, trim, totals,
                       \* sld, done; crash when the process was terminated
    statDone,          \* buckets the loop at statPc has finished
    successInfo,       \* <<node, link>> -> sequence of success records
    numSuccessPerNodeLink,         \* finalResults.m_numSuccessPerNodeLink
    enqueueTimeMap,                \* <<node, link>> -> sequence of times
    dequeueTimeMap,
    holTimeMap,
    totalQueuingDelayPerNodeLink,  \* <<node, link>> -> sum
    totalAccessDelayPerNodeLink,
    meanQueuingDelayPerNodeLink,   \* <<node, link>> -> quotient [n, d]
    meanAccessDelayPerNodeLink,
    sldMeanQueDelayLink1,          \* quotient [n, d]
    sldMeanAccDelayLink1

progVars == <<m_sent, m_maxPackets, m_timeSlot, m_bernoulliPr, m_priority,
              m_optionalTid, m_optionalTidPr, m_peerAddress, m_peerAddressSet,
              m_socket, m_sendEvent>>
schedVars == <<queue, cancelled, curTs, curUid, nextUid>>
obsVars == <<lastOp, lastSend, running, startCount, everStopped,
             sentSinceStart, startTs>>
statVars == <<statPc, statDone, successInfo, numSuccessPerNodeLink,
              enqueueTimeMap, dequeueTimeMap, holTimeMap,
              totalQueuingDelayPerNodeLink, totalAccessDelayPerNodeLink,
              meanQueuingDelayPerNodeLink, meanAccessDelayPerNodeLink,
              sldMeanQueDelayLink1, sldMeanAccDelayLink1>>
sideVars == <<arrival, statVars>>
vars == <<progVars, schedVars, aborted, obsVars, sideVars>>

\* ---------------------------------------------------------------- bounds
MaxTime == 3
MaxUid == 3

\* ------------------------------------------------------------- rationals
Rat(n, d) == [n |-> n, d |-> d]
RatLess(a, b) == a.n * b.d < b.n * a.d

\* Values the attributes are configured with.
MaxPacketsValues == {0, 1, 2}
TimeSlotValues == {2}
BernoulliPrValues == {Rat(0, 1), Rat(1, 2), Rat(1, 1)}
OptionalTidPrValues == {Rat(0, 1), Rat(1, 2), Rat(1, 1)}
PriorityValues == {0, 5}
OptionalTidValues == {0, 5}
\* The address SetRemote is called with.
PeerValues == {1}
\* Calls the interface documents as errors: a SetRemote with another
\* address, and a TID above 7 for Priority and for OptionalTid.
MisusePeerValues == {2}
InvalidTidValues == {9}
\* Values the attributes TimeSlot, BernoulliPr and OptionalTidPr are
\* written with after construction; 3/2 is a probability the checker
\* rejects.
AttributeTimeSlotValues == {1, 2}
AttributePrValues == {Rat(0, 1), Rat(1, 2), Rat(1, 1), Rat(3, 2)}
\* Upper limit of the checker of attribute OptionalTid.
MaxOptionalTid == 7
\* Values UniformRandomVariable::GetValue() returns, inside (0,1).
UniformValues == {Rat(1, 4), Rat(1, 2), Rat(3, 4)}

\* ----------------------------------------------------------- scheduler
NoEvent == [uid |-> 0, ts |-> 0]
\* A default-constructed Address.
NoAddress == 0
NullSocket == [state |-> "null", priority |-> 0, peer |-> NoAddress]

\* EventId::IsExpired / Simulator::IsExpired, with the scheduler at (now, uid).
IsExpiredAt(e, now, uid, canc) ==
    \/ e.uid = 0
    \/ e.ts < now
    \/ (e.ts = now /\ e.uid <= uid)
    \/ e.uid \in canc

IsExpired(e) == IsExpiredAt(e, curTs, curUid, cancelled)

\* The events still to be invoked with effect.
Pending == {e \in queue : e.uid \notin cancelled}

\* Order of the scheduler's event list: by timestamp, then by uid.
Before(e, f) == e.ts < f.ts \/ (e.ts = f.ts /\ e.uid < f.uid)
NextEvent == CHOOSE e \in queue : \A f \in queue : f = e \/ Before(e, f)

\* Simulator::Cancel(id).
CancelEvent(e) == IF IsExpired(e) THEN cancelled ELSE cancelled \cup {e.uid}

\* ---------------------------------------------------------------- Init
NoSend == [ok |-> FALSE, tag |-> 0, v |-> Rat(1, 2), u |-> Rat(1, 2),
           drewTid |-> FALSE, first |-> FALSE]

\* No interval computed yet.
NoArrival == [status |-> "none", u |-> Rat(1, 2), k |-> 0, interval |-> 0]

\* A quotient of doubles, kept as the pair it is computed from.
Div(total, count) == [n |-> total, d |-> count]

\* The empty std::map.
EmptyMap == [k \in {} |-> 0]

\* main() at position pc with the records info collected and nothing
\* computed from them.
StatStart(pc, info) ==
    /\ statPc = pc
    /\ statDone = {}
    /\ successInfo = info
    /\ numSuccessPerNodeLink = EmptyMap
    /\ enqueueTimeMap = EmptyMap
    /\ dequeueTimeMap = EmptyMap
    /\ holTimeMap = EmptyMap
    /\ totalQueuingDelayPerNodeLink = EmptyMap
    /\ totalAccessDelayPerNodeLink = EmptyMap
    /\ meanQueuingDelayPerNodeLink = EmptyMap
    /\ meanAccessDelayPerNodeLink = EmptyMap
    /\ sldMeanQueDelayLink1 = Div(0, 0)
    /\ sldMeanAccDelayLink1 = Div(0, 0)

\* main() has not reached Simulator::Run.
StatOff == StatStart("off", EmptyMap)

\* The application after construction and SetAttribute, with TimeSlot and
\* BernoulliPr from the given sets.
ClientInit(slots, prs) ==
    /\ m_sent = 0
    /\ m_maxPackets \in MaxPacketsValues
    /\ m_timeSlot \in slots
    /\ m_bernoulliPr \in prs
    /\ m_priority = 0
    /\ m_optionalTid = 0
    /\ m_optionalTidPr \in OptionalTidPrValues
    /\ m_peerAddress = NoAddress
    /\ m_peerAddressSet = FALSE
    /\ m_socket = NullSocket
    /\ m_sendEvent = NoEvent
    /\ queue = {}
    /\ cancelled = {}
    /\ curTs = 0
    /\ curUid = 0
    /\ nextUid = 1
    /\ aborted = "none"
    /\ lastOp = "Init"
    /\ lastSend = NoSend
    /\ running = FALSE
    /\ startCount = 0
    /\ everStopped = FALSE
    /\ sentSinceStart = FALSE
    /\ startTs = 0

Init ==
    /\ ClientInit(TimeSlotValues, BernoulliPrValues)
    /\ arrival = NoArrival
    /\ StatOff

\* ------------------------------------------------------- pure helpers
\* Mutant of StartPrecondition: the assertion is missing.
StartPreconditionDropped(peerSet) == TRUE

\* NS_ASSERT_MSG(m_peerAddressSet, ...) at the top of StartApplication.
StartPrecondition(peerSet) == peerSet

\* Mutant of FirstSendTime: the first Send is scheduled one time unit later.
FirstSendTimeDelayed(now) == now + 1

\* Simulator::ScheduleNow: the first Send is inserted at the current time.
FirstSendTime(now) == now

\* Socket::CreateSocket, Bind and Connect to m_peerAddress, then
\* "if (m_priority) SetPriority(m_priority)".
NewSocket(prio, addr) ==
    [state |-> "open", priority |-> IF prio # 0 THEN prio ELSE 0,
     peer |-> addr]

\* Mutant of SendPriority: the draw is compared with <= instead of <.
SendPriorityInclusive(sockPrio, prio, optTid, optPr, v) ==
    IF optTid # prio
    THEN IF ~RatLess(optPr, v) THEN optTid ELSE prio
    ELSE sockPrio

\* The priority the socket carries when Send reaches m_socket->Send(p):
\* SetPriority is called only inside "if (m_optionalTid != m_priority)".
SendPriority(sockPrio, prio, optTid, optPr, v) ==
    IF optTid # prio
    THEN IF RatLess(v, optPr) THEN optTid ELSE prio
    ELSE sockPrio

\* m_socket->Send(p) >= 0: a socket that was closed never accepts a packet
\* (PacketSocket returns -1, ERROR_NOTCONN); an open one reports what the
\* device reports.
SocketSend(sock, ok) == ok /\ sock.state = "open"

\* Mutant of SentAfter: the increment sits in the success branch.
SentAfterOnSuccessOnly(sent, ok) == IF ok THEN sent + 1 ELSE sent

\* m_sent++ after the if/else on the result of m_socket->Send.
SentAfter(sent, ok) == sent + 1

\* std::log(uniform) / std::log(1 - m_bernoulliPr) is a quotient of doubles.
\* The rationals u and p of the model stand for the doubles nearest to
\* them.  "The quotient is below k" is u > (1-p)^k in exact arithmetic, and
\* the doubles decide it the same way unless the two sides are equal or
\* nearly equal; then the roundings of p, of the logarithms and of the
\* division decide.

RECURSIVE GCD(_, _)
GCD(a, b) == IF b = 0 THEN a ELSE GCD(b, a % b)

\* Denominators d of the probabilities n/d in lowest terms for which the
\* rounding at u = (1-p)^k was taken from the expression of line 229,
\* evaluated with the C library for every k with d^k < 2^31.
MeasuredDenominators == (2..16) \cup {32, 64}

\* The p = n/d (lowest terms) and the k of that domain for which the double
\* quotient at u = (1-p)^k is below k; for the others it is k or above.
\* A p of that domain without an entry has no such k.
LogQuotientBelow ==
    <<2, 5>> :> {6, 11} @@
    <<4, 5>> :> {1, 2, 4, 5, 7, 8, 10, 11} @@
    <<5, 6>> :> {1, 2, 4, 5, 7, 8, 9, 10} @@
    <<3, 7>> :> {3, 4, 5, 6, 7, 8, 9, 10, 11} @@
    <<3, 8>> :> {3, 5, 6, 10} @@
    <<1, 9>> :> {2, 3, 4, 5, 6, 7, 8, 9} @@
    <<5, 9>> :> {7} @@
    <<7, 9>> :> {3, 6} @@
    <<1, 10>> :> {2} @@
    <<3, 10>> :> {2, 3, 4, 5, 6, 7, 8, 9} @@
    <<9, 10>> :> {1, 2, 3, 4, 6, 9} @@
    <<1, 11>> :> {2, 3, 4, 5, 6, 7, 8} @@
    <<2, 11>> :> {1, 2, 3, 4, 5, 6, 7, 8} @@
    <<4, 11>> :> {3, 4, 5, 6, 7, 8} @@
    <<5, 11>> :> {2, 5, 7, 8} @@
    <<8, 11>> :> {7} @@
    <<9, 11>> :> {1, 2, 3, 4, 5, 6, 7, 8} @@
    <<1, 12>> :> {2, 3, 4, 5, 6, 7, 8} @@
    <<5, 12>> :> {1, 2, 3, 4, 5, 6, 7, 8} @@
    <<7, 12>> :> {1, 2, 3, 4, 5, 6, 7, 8} @@
    <<2, 13>> :> {3, 6, 7, 8} @@
    <<3, 13>> :> {1, 2, 3, 4, 5, 6, 7, 8} @@
    <<4, 13>> :> {2, 3, 4, 5, 6, 7, 8} @@
    <<6, 13>> :> {3, 4, 6, 8} @@
    <<8, 13>> :> {1, 2, 3, 4, 5, 6, 8} @@
    <<9, 13>> :> {5, 7} @@
    <<10, 13>> :> {1, 2, 4, 5, 8} @@
    <<12, 13>> :> {1, 2, 3, 4, 5, 6, 7, 8} @@
    <<3, 14>> :> {3, 4, 6, 7, 8} @@
    <<5, 14>> :> {1, 2, 3, 4, 5, 6, 7, 8} @@
    <<9, 14>> :> {1, 2, 3, 4, 5, 6, 7} @@
    <<13, 14>> :> {3, 4, 5, 6, 8} @@
    <<7, 15>> :> {2, 4, 5, 6} @@
    <<13, 15>> :> {1, 2, 3, 4, 5, 6, 7} @@
    <<14, 15>> :> {1, 2, 3, 4, 5, 6, 7} @@
    <<1, 16>> :> {5, 7} @@
    <<5, 16>> :> {7} @@
    <<13, 16>> :> {5, 7} @@
    <<5, 32>> :> {3, 6} @@
    <<21, 32>> :> {5} @@
    <<11, 64>> :> {3} @@
    <<21, 64>> :> {3} @@
    <<37, 64>> :> {5} @@
    <<39, 64>> :> {3, 5} @@
    <<41, 64>> :> {3} @@
    <<61, 64>> :> {3}

\* A double that is no rational with small terms.  A draw with a field
\* ulp is the double ulp places above (below, if negative) the double
\* nearest n/d; a probability with a field exp2 is (n/d) / 2^exp2.
Ulp(u) == IF "ulp" \in DOMAIN u THEN u.ulp ELSE 0
Exp2(p) == IF "exp2" \in DOMAIN p THEN p.exp2 ELSE 0
Nudged(u, s) == [n |-> u.n, d |-> u.d, ulp |-> s]
Scaled(p, e) == [n |-> p.n, d |-> p.d, exp2 |-> e]

RECURSIVE TwoTo(_)
TwoTo(e) == IF e = 0 THEN 1 ELSE 2 * TwoTo(e - 1)

RECURSIVE PowerOfTwo(_)
PowerOfTwo(n) == n = 1 \/ (n % 2 = 0 /\ PowerOfTwo(n \div 2))

\* The same measurement for the double next above (1-p)^k: the p and k for
\* which the quotient is k or above although u > (1-p)^k.
LogQuotientOntoAbove ==
    <<1, 2>> :> {3, 4, 5, 6, 7, 8, 9, 10, 11, 12, 13, 14, 15, 16, 17, 18,
        19, 20, 21, 22, 23, 24, 25, 26, 27, 28, 29, 30} @@
    <<1, 3>> :> {1, 2, 3, 4, 5, 6, 7, 8, 9, 10, 11, 12, 13, 14, 15, 16, 17,
        18, 19} @@
    <<2, 3>> :> {1, 2, 3, 4, 5, 6, 7, 8, 9, 10, 11, 12, 13, 14, 15, 16, 17,
        18, 19} @@
    <<1, 4>> :> {3, 4, 5, 6, 7, 8, 9, 10, 11, 12, 13, 14, 15} @@
    <<3, 4>> :> {2, 3, 4, 5, 6, 7, 8, 9, 10, 11, 12, 13, 14, 15} @@
    <<1, 5>> :> {4, 5, 6, 7, 8, 9, 10, 11, 12, 13} @@
    <<2, 5>> :> {5, 7, 9, 10, 13} @@
    <<3, 5>> :> {2, 3, 4, 5, 6, 7, 8, 9, 10, 11, 12, 13} @@
    <<4, 5>> :> {9, 12, 13} @@
    <<1, 6>> :> {4, 5, 6, 8, 9, 10, 11} @@
    <<5, 6>> :> {6} @@
    <<1, 7>> :> {1, 3, 4, 5, 6, 7, 8, 9, 10, 11} @@
    <<2, 7>> :> {3, 5, 6, 7, 8, 9, 10, 11} @@
    <<4, 7>> :> {1, 2, 3, 4, 5, 6, 7, 8, 9, 10, 11} @@
    <<5, 7>> :> {2, 4, 5, 7, 8, 9, 10, 11} @@
    <<6, 7>> :> {1, 2, 3, 4, 5, 6, 7, 8, 9, 10, 11} @@
    <<1, 8>> :> {9} @@
    <<3, 8>> :> {9} @@
    <<5, 8>> :> {2, 3, 4, 5, 6, 7, 8, 9, 10} @@
    <<7, 8>> :> {1, 2, 3, 4, 5, 6, 7, 8, 9, 10} @@
    <<2, 9>> :> {3, 6, 7, 8, 9} @@
    <<4, 9>> :> {2, 3, 4, 5, 6, 7, 8, 9} @@
    <<5, 9>> :> {2, 3, 6, 8, 9} @@
    <<7, 9>> :> {5, 7, 8, 9} @@
    <<8, 9>> :> {1, 2, 3, 4, 5, 6, 7, 8, 9} @@
    <<1, 10>> :> {8, 9} @@
    <<7, 10>> :> {1, 2, 3, 4, 5, 6, 7, 8, 9} @@
    <<9, 10>> :> {5, 7} @@
    <<3, 11>> :> {4, 5, 6, 7, 8} @@
    <<6, 11>> :> {1, 2, 3, 4, 5, 6, 7, 8} @@
    <<7, 11>> :> {2, 3, 4, 5, 6, 7, 8} @@
    <<8, 11>> :> {3, 4, 5, 6, 8} @@
    <<10, 11>> :> {1, 2, 3, 4, 5, 6, 7, 8} @@
    <<11, 12>> :> {1, 2, 3, 4, 5, 6, 7, 8} @@
    <<1, 13>> :> {3, 4, 5, 6, 7, 8} @@
    <<5, 13>> :> {2, 3, 4, 5, 6, 7, 8} @@
    <<7, 13>> :> {2, 3, 4, 5, 6, 7, 8} @@
    <<9, 13>> :> {2, 3, 4, 6, 8} @@
    <<11, 13>> :> {2, 3, 4, 5, 6, 7, 8} @@
    <<1, 14>> :> {5, 6, 7, 8} @@
    <<11, 14>> :> {1, 2, 3, 4, 5, 6, 7, 8} @@
    <<2, 15>> :> {2, 5, 6, 7} @@
    <<4, 15>> :> {1, 3, 4, 5, 6, 7} @@
    <<8, 15>> :> {2, 3, 4, 5, 6, 7} @@
    <<11, 15>> :> {1, 2, 3, 4, 5, 6, 7} @@
    <<3, 16>> :> {6} @@
    <<5, 16>> :> {6} @@
    <<7, 16>> :> {2, 3, 4, 5, 6, 7} @@
    <<9, 16>> :> {2, 4, 5, 7} @@
    <<11, 16>> :> {2, 3, 4, 5, 6, 7} @@
    <<13, 16>> :> {3, 4, 6} @@
    <<15, 16>> :> {1, 2, 3, 4, 5, 6, 7} @@
    <<7, 32>> :> {6} @@
    <<11, 32>> :> {4, 5, 6} @@
    <<13, 32>> :> {2, 3, 4, 5, 6} @@
    <<15, 32>> :> {5, 6} @@
    <<17, 32>> :> {3, 4, 5, 6} @@
    <<19, 32>> :> {3, 4, 5, 6} @@
    <<21, 32>> :> {6} @@
    <<23, 32>> :> {3, 4, 5, 6} @@
    <<25, 32>> :> {3, 5, 6} @@
    <<27, 32>> :> {3, 5, 6} @@
    <<29, 32>> :> {4, 5} @@
    <<31, 32>> :> {1, 2, 3, 4, 5, 6} @@
    <<9, 64>> :> {5} @@
    <<19, 64>> :> {4} @@
    <<25, 64>> :> {3} @@
    <<27, 64>> :> {2, 3, 4, 5} @@
    <<29, 64>> :> {5} @@
    <<31, 64>> :> {3, 4, 5} @@
    <<33, 64>> :> {2, 3, 4, 5} @@
    <<35, 64>> :> {2, 3, 4, 5} @@
    <<41, 64>> :> {5} @@
    <<43, 64>> :> {4, 5} @@
    <<45, 64>> :> {3, 4, 5} @@
    <<47, 64>> :> {2, 3, 4, 5} @@
    <<49, 64>> :> {3} @@
    <<53, 64>> :> {2, 4, 5} @@
    <<55, 64>> :> {1, 2, 3, 4, 5} @@
    <<57, 64>> :> {1, 2, 3, 4, 5} @@
    <<59, 64>> :> {1, 2, 3, 4, 5} @@
    <<61, 64>> :> {5} @@
    <<63, 64>> :> {1, 2, 3, 4, 5}

\* The same measurement for the double next below (1-p)^k: the p and k for
\* which the quotient is below k although u < (1-p)^k.
LogQuotientBelowUnder ==
    <<2, 5>> :> {11} @@
    <<4, 5>> :> {5, 7, 8, 10, 11} @@
    <<5, 6>> :> {4, 5, 7, 8, 9, 10} @@
    <<3, 7>> :> {4, 7, 8, 9, 10} @@
    <<3, 8>> :> {6} @@
    <<1, 9>> :> {4, 6, 7, 8, 9} @@
    <<7, 9>> :> {3, 6} @@
    <<3, 10>> :> {3, 4, 5, 6, 7, 8, 9} @@
    <<9, 10>> :> {3, 6, 9} @@
    <<1, 11>> :> {4, 7, 8} @@
    <<2, 11>> :> {3, 4, 5, 6, 7, 8} @@
    <<5, 11>> :> {5, 7} @@
    <<8, 11>> :> {7} @@
    <<9, 11>> :> {1, 2, 3, 4, 5, 6, 7, 8} @@
    <<1, 12>> :> {3, 4, 5, 6, 7, 8} @@
    <<5, 12>> :> {3, 4, 6, 7, 8} @@
    <<7, 12>> :> {3, 4, 5, 6, 7, 8} @@
    <<3, 13>> :> {6, 7, 8} @@
    <<4, 13>> :> {5, 7, 8} @@
    <<6, 13>> :> {6, 8} @@
    <<8, 13>> :> {3, 6, 8} @@
    <<10, 13>> :> {5} @@
    <<12, 13>> :> {1, 2, 3, 4, 5, 6, 7, 8} @@
    <<3, 14>> :> {6} @@
    <<5, 14>> :> {2, 4, 5, 6, 7, 8} @@
    <<9, 14>> :> {5, 6, 7} @@
    <<13, 14>> :> {3, 5, 6} @@
    <<7, 15>> :> {5} @@
    <<13, 15>> :> {2, 3, 4, 5, 6, 7} @@
    <<14, 15>> :> {2, 3, 4, 5, 6, 7} @@
    <<13, 16>> :> {5, 7} @@
    <<21, 32>> :> {5} @@
    <<37, 64>> :> {5} @@
    <<39, 64>> :> {3} @@
    <<61, 64>> :> {3}

Measured(p) == (p.d \div GCD(p.n, p.d)) \in MeasuredDenominators

ReducedKey(p) ==
    LET g == GCD(p.n, p.d)
    IN  <<p.n \div g, p.d \div g>>

\* The measured rounding at the double s places from (1-p)^k, s in -1..1.
RoundsBelow(p, k, s) ==
    LET key == ReducedKey(p)
    IN  IF s = 0
        THEN key \in DOMAIN LogQuotientBelow /\ k \in LogQuotientBelow[key]
        ELSE IF s < 0
        THEN /\ key \in DOMAIN LogQuotientBelowUnder
             /\ k \in LogQuotientBelowUnder[key]
        ELSE ~(/\ key \in DOMAIN LogQuotientOntoAbove
               /\ k \in LogQuotientOntoAbove[key])

\* The double of p = n/d is p itself: the denominator in lowest terms is a
\* power of two (n and d are below 2^31).
ExactPr(p) == PowerOfTwo(p.d \div GCD(p.n, p.d))

\* u and (1-p)^k = pw differ, by a relative amount the rounding of p can
\* outweigh.  The double p is off by up to 2^-54, which is up to
\* 2^-54 / (1-p) of 1 - p and k times as much of (1-p)^k: u is near when
\* (pw / |u - pw|) * (1 / (1-p)) * k >= 2^54.  The two quotients are taken
\* in units of 2^16, rounded up.
Scale16 == 65536
HalfUlpScaled == 4194304
RoundedPrTie(u, p, pw, k) ==
    /\ p.n < p.d
    /\ u.n * pw.d # u.d * pw.n
    /\ LET a == u.n * pw.d
           b == u.d * pw.n
       IN  ((b \div (IF a >= b THEN a - b ELSE b - a)) \div Scale16 + 1)
               * ((p.d \div (p.d - p.n)) \div Scale16 + 1) * k
           >= HalfUlpScaled
    /\ ~ExactPr(p)

\* u is a double next to (1-p)^k = pw: the logarithms of the two differ by
\* less than the roundings of the logarithm and of the division.
UlpTie(u, pw) == u.n * pw.d = u.d * pw.n /\ Ulp(u) # 0

\* u is not (1-p)^k but the double quotient can be k or on either side
\* of it.
NearTie(u, p, pw, k) == UlpTie(u, pw) \/ RoundedPrTie(u, p, pw, k)

\* u is (1-p)^k = pw, or near it: the quotient is k but for the roundings.
\* Whether the double is below k is measured, or it is r, the outcome where
\* the model does not know it (a tie or a neighbour of a tie outside the
\* measured domain, or a tie made by the rounding of p).
Undecided(u, p, pw, k) == u.n * pw.d = u.d * pw.n \/ NearTie(u, p, pw, k)

QuotientBelow(u, p, k, pw, r) ==
    IF u.n * pw.d = u.d * pw.n /\ Measured(p) /\ Ulp(u) \in {-1, 0, 1}
    THEN RoundsBelow(p, k, Ulp(u))
    ELSE r

\* floor(log(u)/log(1-p)) + 1 for u in (0,1) and p in (0,1): the least
\* k >= 1 with u > (1-p)^k; where u is (1-p)^k or near it, k if the double
\* quotient is below k and k + 1 if it is not.
RECURSIVE GeoK(_, _, _, _, _)
GeoK(u, p, k, pw, r) ==
    \* pw = [n |-> (p.d - p.n)^k, d |-> p.d^k]
    IF Undecided(u, p, pw, k)
    THEN IF QuotientBelow(u, p, k, pw, r) THEN k ELSE k + 1
    ELSE IF u.n * pw.d > u.d * pw.n
    THEN k
    ELSE GeoK(u, p, k + 1, [n |-> pw.n * (p.d - p.n), d |-> pw.d * p.d], r)

\* The same from k = 1, where pw is 1 - p.
GeoFirst(u, p, r) == GeoK(u, p, 1, [n |-> p.d - p.n, d |-> p.d], r)

\* 1 - m_bernoulliPr is the double 1.0: p is 0, or at most 2^-54, half the
\* distance from 1.0 to the double below it (the tie rounds to 1.0).
OneMinusIsOne(p) ==
    \/ p.n = 0
    \/ /\ Exp2(p) >= 24
       /\ IF Exp2(p) >= 54
          THEN \/ Exp2(p) >= 85
               \/ (p.n - 1) \div TwoTo(Exp2(p) - 54) < p.d
          ELSE p.n <= p.d \div TwoTo(54 - Exp2(p))

\* The probability as one fraction.
PlainPr(p) ==
    IF Exp2(p) = 0 THEN p ELSE [n |-> p.n, d |-> p.d * TwoTo(Exp2(p))]

\* std::floor(std::log(uniform) / std::log(1 - m_bernoulliPr)) + 1.
\* Where 1 - p is the double 1.0 the divisor is log(1) = +0.0 and the
\* double is -infinity.
NumInterval(u, p, r) ==
    IF OneMinusIsOne(p)
    THEN [finite |-> FALSE, k |-> 0]
    ELSE [finite |-> TRUE, k |-> GeoFirst(u, PlainPr(p), r)]

\* The values numInterval can take for the draw u.
NumIntervalOutcomes(u, p) == {NumInterval(u, p, r) : r \in BOOLEAN}

\* Mutant of PrBelowOne: the assertion is missing.
PrBelowOneDropped(p) == TRUE

\* NS_ASSERT(m_bernoulliPr < 1): n / d / 2^exp2 < 1, that is n < d * 2^exp2.
PrBelowOne(p) ==
    IF "exp2" \in DOMAIN p
    THEN p.exp2 >= 31 \/ p.n \div TwoTo(p.exp2) < p.d
    ELSE p.n < p.d

\* NS_ASSERT(numInterval > 0).
NumIntervalPositive(x) == x.finite /\ x.k > 0

\* Time interval = numInterval * m_timeSlot.
Interval(x, slot) == x.k * slot

\* Mutant of ShouldArm: off by one in the comparison with m_maxPackets.
ShouldArmOffByOne(sent, max) == sent <= max \/ max = 0

\* Mutant of ShouldArm: the "zero means infinite" case is missing.
ShouldArmNoInfinite(sent, max) == sent < max

\* Mutant of ShouldArm: "zero means infinite" holds for the first two
\* packets only.
ShouldArmOnlyFirst(sent, max) == sent < max \/ (max = 0 /\ sent <= 1)

\* (m_sent < m_maxPackets) || (m_maxPackets == 0).
ShouldArm(sent, max) == sent < max \/ max = 0

Sat2(n) == IF n >= 2 THEN 2 ELSE n

\* ------------------------------------------------------------ actions
\* BernoulliPacketSocketClient::SetRemote.
SetRemote(addr) ==
    /\ aborted = "none"
    /\ UNCHANGED sideVars
    /\ m_peerAddress' = addr
    /\ m_peerAddressSet' = TRUE
    /\ lastOp' = "Config"
    /\ lastSend' = NoSend
    /\ UNCHANGED <<m_sent, m_maxPackets, m_timeSlot, m_bernoulliPr, m_priority,
                   m_optionalTid, m_optionalTidPr, m_socket, m_sendEvent>>
    /\ UNCHANGED <<schedVars, aborted>>
    /\ UNCHANGED <<running, startCount, everStopped, sentSinceStart, startTs>>

\* BernoulliPacketSocketClient::SetPriority (also the Priority attribute).
SetPriority(priority) ==
    /\ aborted = "none"
    /\ UNCHANGED sideVars
    /\ m_priority' = priority
    /\ m_socket' = IF m_socket # NullSocket
                   THEN [m_socket EXCEPT !.priority = priority]
                   ELSE m_socket
    /\ lastOp' = "Config"
    /\ lastSend' = NoSend
    /\ UNCHANGED <<m_sent, m_maxPackets, m_timeSlot, m_bernoulliPr,
                   m_optionalTid, m_optionalTidPr, m_peerAddress,
                   m_peerAddressSet, m_sendEvent>>
    /\ UNCHANGED <<schedVars, aborted>>
    /\ UNCHANGED <<running, startCount, everStopped, sentSinceStart, startTs>>

\* MakeUintegerChecker<uint32_t>(0, 7) of attribute OptionalTid.
OptionalTidAccepted(tid) == tid >= 0 /\ tid <= MaxOptionalTid

\* Attribute OptionalTid: a value the checker rejects ends the run
\* (NS_FATAL_ERROR in ObjectBase::SetAttribute); otherwise the accessor
\* writes m_optionalTid and nothing else.
SetOptionalTid(tid) ==
    /\ aborted = "none"
    /\ UNCHANGED sideVars
    /\ m_optionalTid' = IF OptionalTidAccepted(tid) THEN tid ELSE m_optionalTid
    /\ aborted' = IF OptionalTidAccepted(tid) THEN aborted ELSE "attribute"
    /\ lastOp' = "Config"
    /\ lastSend' = NoSend
    /\ UNCHANGED <<m_sent, m_maxPackets, m_timeSlot, m_bernoulliPr, m_priority,
                   m_optionalTidPr, m_peerAddress, m_peerAddressSet, m_socket,
                   m_sendEvent>>
    /\ UNCHANGED schedVars
    /\ UNCHANGED <<running, startCount, everStopped, sentSinceStart, startTs>>

\* Attribute MaxPackets: the accessor writes m_maxPackets and nothing else;
\* the checker accepts every uint32_t.
SetMaxPackets(maxPackets) ==
    /\ aborted = "none"
    /\ UNCHANGED sideVars
    /\ m_maxPackets' = maxPackets
    /\ lastOp' = "Config"
    /\ lastSend' = NoSend
    /\ UNCHANGED <<m_sent, m_timeSlot, m_bernoulliPr, m_priority, m_optionalTid,
                   m_optionalTidPr, m_peerAddress, m_peerAddressSet, m_socket,
                   m_sendEvent>>
    /\ UNCHANGED schedVars
    /\ UNCHANGED aborted
    /\ UNCHANGED <<running, startCount, everStopped, sentSinceStart, startTs>>

\* Attribute TimeSlot: the accessor writes m_timeSlot and nothing else; the
\* checker accepts every Time.
SetTimeSlot(timeSlot) ==
    /\ aborted = "none"
    /\ UNCHANGED sideVars
    /\ m_timeSlot' = timeSlot
    /\ lastOp' = "Config"
    /\ lastSend' = NoSend
    /\ UNCHANGED <<m_sent, m_maxPackets, m_bernoulliPr, m_priority,
                   m_optionalTid, m_optionalTidPr, m_peerAddress,
                   m_peerAddressSet, m_socket, m_sendEvent>>
    /\ UNCHANGED schedVars
    /\ UNCHANGED aborted
    /\ UNCHANGED <<running, startCount, everStopped, sentSinceStart, startTs>>

\* MakeDoubleChecker<double>(0.0, 1.0): 0 <= n / d / 2^exp2 <= 1.
DoubleAccepted(p) ==
    \/ p.n = 0
    \/ /\ p.n > 0
       /\ Exp2(p) >= 31 \/ (p.n - 1) \div TwoTo(Exp2(p)) < p.d

\* Attribute BernoulliPr: a value the checker rejects ends the run;
\* otherwise the accessor writes m_bernoulliPr and nothing else.
SetBernoulliPr(pr) ==
    /\ aborted = "none"
    /\ UNCHANGED sideVars
    /\ m_bernoulliPr' = IF DoubleAccepted(pr) THEN pr ELSE m_bernoulliPr
    /\ aborted' = IF DoubleAccepted(pr) THEN aborted ELSE "attribute"
    /\ lastOp' = "Config"
    /\ lastSend' = NoSend
    /\ UNCHANGED <<m_sent, m_maxPackets, m_timeSlot, m_priority, m_optionalTid,
                   m_optionalTidPr, m_peerAddress, m_peerAddressSet, m_socket,
                   m_sendEvent>>
    /\ UNCHANGED schedVars
    /\ UNCHANGED <<running, startCount, everStopped, sentSinceStart, startTs>>

\* Attribute OptionalTidPr: a value the checker rejects ends the run;
\* otherwise the accessor writes m_optionalTidPr and nothing else.
SetOptionalTidPr(pr) ==
    /\ aborted = "none"
    /\ UNCHANGED sideVars
    /\ m_optionalTidPr' = IF DoubleAccepted(pr) THEN pr ELSE m_optionalTidPr
    /\ aborted' = IF DoubleAccepted(pr) THEN aborted ELSE "attribute"
    /\ lastOp' = "Config"
    /\ lastSend' = NoSend
    /\ UNCHANGED <<m_sent, m_maxPackets, m_timeSlot, m_bernoulliPr, m_priority,
                   m_optionalTid, m_peerAddress, m_peerAddressSet, m_socket,
                   m_sendEvent>>
    /\ UNCHANGED schedVars
    /\ UNCHANGED <<running, startCount, everStopped, sentSinceStart, startTs>>

\* BernoulliPacketSocketClient::StartApplication.
StartApplication ==
    /\ aborted = "none"
    /\ UNCHANGED sideVars
    /\ lastOp' = "Start"
    /\ lastSend' = NoSend
    /\ IF ~StartPrecondition(m_peerAddressSet)
       THEN /\ aborted' = "peer"
            /\ UNCHANGED <<progVars, schedVars>>
            /\ UNCHANGED <<running, startCount, everStopped, sentSinceStart, startTs>>
       ELSE /\ nextUid <= MaxUid
            /\ m_socket' = IF m_socket = NullSocket
                           THEN NewSocket(m_priority, m_peerAddress)
                           ELSE m_socket
            /\ LET e == [uid |-> nextUid, ts |-> FirstSendTime(curTs)]
               IN  /\ queue' = queue \cup {e}
                   /\ m_sendEvent' = e
            /\ nextUid' = nextUid + 1
            /\ running' = TRUE
            /\ startCount' = Sat2(startCount + 1)
            /\ sentSinceStart' = FALSE
            /\ startTs' = curTs
            /\ UNCHANGED <<m_sent, m_maxPackets, m_timeSlot, m_bernoulliPr,
                           m_priority, m_optionalTid, m_optionalTidPr,
                           m_peerAddress, m_peerAddressSet>>
            /\ UNCHANGED <<cancelled, curTs, curUid, aborted, everStopped>>

\* BernoulliPacketSocketClient::StopApplication.  m_socket is dereferenced
\* without a check: on a null Ptr the run ends, by the assertion in
\* Ptr::operator-> or by the fault of the call through the null pointer.
StopApplication ==
    /\ aborted = "none"
    /\ UNCHANGED sideVars
    /\ lastOp' = "Stop"
    /\ lastSend' = NoSend
    /\ cancelled' = CancelEvent(m_sendEvent)
    /\ IF m_socket = NullSocket
       THEN /\ aborted' \in {"nullptr_assert", "nullptr_fault"}
            /\ UNCHANGED m_socket
       ELSE /\ m_socket' = [m_socket EXCEPT !.state = "closed"]
            /\ UNCHANGED aborted
    /\ running' = FALSE
    /\ everStopped' = TRUE
    /\ UNCHANGED <<m_sent, m_maxPackets, m_timeSlot, m_bernoulliPr, m_priority,
                   m_optionalTid, m_optionalTidPr, m_peerAddress,
                   m_peerAddressSet, m_sendEvent>>
    /\ UNCHANGED <<queue, curTs, curUid, nextUid>>
    /\ UNCHANGED <<startCount, sentSinceStart, startTs>>

\* Mutant of IntervalDraw: the interval is computed from the draw of the
\* priority stream.
IntervalDrawShared(v, u) == v

\* double uniform = m_uniformRngForInterval->GetValue(): of the two draws a
\* Send can make, v of m_uniformRngForTid and u of m_uniformRngForInterval,
\* the interval is computed from u.
IntervalDraw(v, u) == u

\* BernoulliPacketSocketClient::Send, invoked by the scheduler for event e.
\* ok: what the device reports for the packet; v: the draw of
\* m_uniformRngForTid; u: the draw of m_uniformRngForInterval.
Send(e, ok, v, u) ==
    IF ~IsExpiredAt(m_sendEvent, e.ts, e.uid, cancelled)
    THEN \* NS_ASSERT(m_sendEvent.IsExpired()) fails.
         /\ aborted' = "expired"
         /\ queue' = queue \ {e}
         /\ lastSend' = NoSend
         /\ UNCHANGED <<progVars, nextUid, sentSinceStart>>
    ELSE \E num \in NumIntervalOutcomes(IntervalDraw(v, u), m_bernoulliPr) :
         LET tag == SendPriority(m_socket.priority, m_priority, m_optionalTid,
                                 m_optionalTidPr, v)
             res == SocketSend(m_socket, ok)
             sent == SentAfter(m_sent, res)
             arm == /\ PrBelowOne(m_bernoulliPr)
                    /\ NumIntervalPositive(num)
                    /\ ShouldArm(sent, m_maxPackets)
             next == [uid |-> nextUid,
                      ts |-> e.ts + Interval(num, m_timeSlot)]
         IN  /\ m_socket' = [m_socket EXCEPT !.priority = tag]
             /\ m_sent' = sent
             /\ lastSend' = [ok |-> res, tag |-> tag,
                             v |-> IF m_optionalTid # m_priority
                                   THEN v ELSE NoSend.v,
                             u |-> u,
                             drewTid |-> m_optionalTid # m_priority,
                             first |-> ~sentSinceStart]
             /\ sentSinceStart' = TRUE
             /\ aborted' = IF ~PrBelowOne(m_bernoulliPr) THEN "pr"
                           ELSE IF ~NumIntervalPositive(num) THEN "numInterval"
                           ELSE "none"
             /\ IF arm
                THEN /\ nextUid <= MaxUid
                     /\ next.ts <= MaxTime
                     /\ queue' = (queue \ {e}) \cup {next}
                     /\ m_sendEvent' = next
                     /\ nextUid' = nextUid + 1
                ELSE /\ queue' = queue \ {e}
                     /\ UNCHANGED <<m_sendEvent, nextUid>>
             /\ UNCHANGED <<m_maxPackets, m_timeSlot, m_bernoulliPr, m_priority,
                            m_optionalTid, m_optionalTidPr, m_peerAddress,
                            m_peerAddressSet>>

\* The scheduler invokes the next event of its list, which runs Send.
InvokeSend ==
    /\ aborted = "none"
    /\ UNCHANGED sideVars
    /\ queue # {}
    /\ NextEvent.uid \notin cancelled
    /\ curTs' = NextEvent.ts
    /\ curUid' = NextEvent.uid
    /\ lastOp' = "Send"
    /\ \E ok \in BOOLEAN, v \in UniformValues, u \in UniformValues :
           Send(NextEvent, ok, v, u)
    /\ UNCHANGED cancelled
    /\ UNCHANGED <<running, startCount, everStopped, startTs>>

\* The scheduler reaches a cancelled event: EventImpl::Invoke does nothing.
InvokeCancelled ==
    /\ aborted = "none"
    /\ UNCHANGED sideVars
    /\ queue # {}
    /\ NextEvent.uid \in cancelled
    /\ curTs' = NextEvent.ts
    /\ curUid' = NextEvent.uid
    /\ queue' = queue \ {NextEvent}
    /\ lastOp' = "Sched"
    /\ lastSend' = NoSend
    /\ UNCHANGED <<progVars, cancelled, nextUid, aborted>>
    /\ UNCHANGED <<running, startCount, everStopped, sentSinceStart, startTs>>

\* The scheduler invokes an event of another component at a later time t
\* (the event that carries the next call from outside): no event of this
\* application is due before t.
Advance(t) ==
    /\ aborted = "none"
    /\ UNCHANGED sideVars
    /\ t > curTs
    /\ \A e \in queue : t <= e.ts
    /\ curTs' = t
    /\ curUid' = 0
    /\ lastOp' = "Sched"
    /\ lastSend' = NoSend
    /\ UNCHANGED <<progVars, queue, cancelled, nextUid, aborted>>
    /\ UNCHANGED <<running, startCount, everStopped, sentSinceStart, startTs>>

Next ==
    \/ \E a \in PeerValues : SetRemote(a)
    \/ \E p \in PriorityValues : SetPriority(p)
    \/ \E t \in OptionalTidValues : SetOptionalTid(t)
    \/ StartApplication
    \/ StopApplication
    \/ InvokeSend
    \/ InvokeCancelled
    \/ \E t \in 1..MaxTime : Advance(t)

Spec == Init /\ [][Next]_vars

\* The same application under an environment that also issues the calls
\* the interface documents as errors, for one configuration of the
\* attributes MaxPackets, BernoulliPr and OptionalTidPr.
ReconfigInit ==
    /\ Init
    /\ m_maxPackets = 0
    /\ m_bernoulliPr = Rat(1, 2)
    /\ m_optionalTidPr = Rat(1, 2)

ReconfigNext ==
    \/ Next
    \/ \E a \in MisusePeerValues : SetRemote(a)
    \/ \E p \in InvalidTidValues : SetPriority(p)
    \/ \E t \in InvalidTidValues : SetOptionalTid(t)

ReconfigSpec == ReconfigInit /\ [][ReconfigNext]_vars

\* The application under an environment that writes the attributes
\* MaxPackets, TimeSlot, BernoulliPr and OptionalTidPr at any time after
\* construction, before the application starts and while it runs.
AttributeNext ==
    \/ \E a \in PeerValues : SetRemote(a)
    \/ StartApplication
    \/ StopApplication
    \/ InvokeSend
    \/ InvokeCancelled
    \/ \E t \in 1..MaxTime : Advance(t)
    \/ \E n \in MaxPacketsValues : SetMaxPackets(n)
    \/ \E t \in AttributeTimeSlotValues : SetTimeSlot(t)
    \/ \E p \in AttributePrValues : SetBernoulliPr(p)
    \/ \E p \in AttributePrValues : SetOptionalTidPr(p)

AttributeSpec == ReconfigInit /\ [][AttributeNext]_vars

\* The client GetBernoulliClient returns to main() (single-bss-sld.cc lines
\* 168-202, called at line 647 with the traffic configuration of lines
\* 600-609): MaxPackets 0, TimeSlot one slot, Priority the low TID and
\* OptionalTid the high TID of AC_BE, OptionalTidPr 0 for a station of
\* link 1 and 1 for a station of link 2, and the peer set by SetRemote.
\* The probability stands for the command line's lambda.
LiveTimeSlotValues == {1}
LiveOptionalTidPrValues == {Rat(0, 1), Rat(1, 1)}

LiveInit ==
    /\ m_sent = 0
    /\ m_maxPackets = 0
    /\ m_timeSlot \in LiveTimeSlotValues
    /\ m_bernoulliPr = Rat(1, 2)
    /\ m_priority = 0
    /\ m_optionalTid = 3
    /\ m_optionalTidPr \in LiveOptionalTidPrValues
    /\ m_peerAddress \in PeerValues
    /\ m_peerAddressSet = TRUE
    /\ m_socket = NullSocket
    /\ m_sendEvent = NoEvent
    /\ queue = {}
    /\ cancelled = {}
    /\ curTs = 0
    /\ curUid = 0
    /\ nextUid = 1
    /\ aborted = "none"
    /\ lastOp = "Init"
    /\ lastSend = NoSend
    /\ running = FALSE
    /\ startCount = 0
    /\ everStopped = FALSE
    /\ sentSinceStart = FALSE
    /\ startTs = 0
    /\ arrival = NoArrival
    /\ StatOff

\* Simulator::Stop (single-bss-sld.cc line 683) takes effect: Run returns
\* and the events still in the list are never invoked.
SimulatorStop ==
    /\ aborted = "none"
    /\ UNCHANGED sideVars
    /\ aborted' = "stopped"
    /\ lastOp' = "Sched"
    /\ lastSend' = NoSend
    /\ UNCHANGED <<progVars, schedVars>>
    /\ UNCHANGED <<running, startCount, everStopped, sentSinceStart, startTs>>

\* The calls of the application's life and the steps of the scheduler; the
\* attributes and the peer keep the values GetBernoulliClient gave them.
LiveNext ==
    \/ StartApplication
    \/ StopApplication
    \/ InvokeSend
    \/ InvokeCancelled
    \/ \E t \in 1..MaxTime : Advance(t)
    \/ SimulatorStop

\* Simulator::Run invokes the event at the head of its list, again and
\* again, until the list is empty or Simulator::Stop takes effect: while
\* the run lasts, an event that stays at the head of the list is invoked.
\* This is the fair scheduler of the claim: weak fairness of the two
\* scheduler steps.
LiveSpec ==
    /\ LiveInit
    /\ [][LiveNext]_vars
    /\ WF_vars(InvokeSend)
    /\ WF_vars(InvokeCancelled)

\* ------------------------------------ the interval computation alone
\* Values of TimeSlot, BernoulliPr and of the draw the computation is
\* applied to.
IntervalSlotValues == {1, 2, 3}
\* A probability next to 1 whose double is not the fraction: 1 - p is
\* 1 / (2^27 + 1) and the double of 1 - p is 2^-27.
NearOnePr == Rat(134217728, 134217729)
\* 2^-60, 2^-54 and again 2^-54, probabilities inside (0,1) for which
\* 1 - p is 1.0.
TinyPrValues ==
    {Scaled(Rat(1, 2), 59), Scaled(Rat(1, 2), 53), Scaled(Rat(1, 1), 54)}
\* 1/2 and 1/4 as 1 / 2^1 and 1 / 2^2, and 1 as 2 / 2^1.
ScaledPrValues ==
    {Scaled(Rat(1, 1), 1), Scaled(Rat(1, 1), 2), Scaled(Rat(2, 1), 1)}
IntervalPrValues ==
    {Rat(0, 1), Rat(1, 4), Rat(1, 3), Rat(3, 8), Rat(1, 2), Rat(2, 3),
     Rat(3, 4), Rat(1, 1), NearOnePr} \cup TinyPrValues \cup ScaledPrValues
IntervalUniformFractions ==
    {Rat(1, 64), Rat(1, 8), Rat(125, 512), Rat(1, 4), Rat(3, 8), Rat(1, 2),
     Rat(5, 8), Rat(3, 4), Rat(7, 8)}
\* The fractions and the doubles next to them.
IntervalUniformValues ==
    IntervalUniformFractions
        \cup {Nudged(u, s) : u \in IntervalUniformFractions, s \in {-1, 1}}
\* The draws applied to NearOnePr: 2^-27, just above 1 - p, and two draws
\* far above it.
NearOneDraws == {Rat(1, 134217728), Rat(1, 8), Rat(1, 2)}
\* The draws applied to the probability p.
IntervalDraws(p) ==
    IF p = NearOnePr THEN NearOneDraws ELSE IntervalUniformValues

\* The tail of Send: the two assertions, numInterval and the interval.
ArrivalOf(u, p, slot, num) ==
    IF ~PrBelowOne(p)
    THEN [status |-> "pr", u |-> u, k |-> 0, interval |-> 0]
    ELSE IF ~NumIntervalPositive(num)
    THEN [status |-> "numInterval", u |-> u, k |-> 0, interval |-> 0]
    ELSE [status |-> "ok", u |-> u, k |-> num.k,
          interval |-> Interval(num, slot)]

\* One computation of the interval to the next Send, for the draw u.
NextInterval(u) ==
    /\ \E num \in NumIntervalOutcomes(u, m_bernoulliPr) :
           arrival' = ArrivalOf(u, m_bernoulliPr, m_timeSlot, num)
    /\ UNCHANGED <<progVars, schedVars, aborted, obsVars, statVars>>

IntervalInit ==
    /\ ClientInit(IntervalSlotValues, IntervalPrValues)
    /\ m_maxPackets = 0
    /\ m_optionalTidPr = Rat(0, 1)
    /\ arrival = NoArrival
    /\ StatOff

IntervalNext == \E u \in IntervalDraws(m_bernoulliPr) : NextInterval(u)

IntervalSpec == IntervalInit /\ [][IntervalNext]_vars

\* ------------------------------------ main() of single-bss-sld.cc
\* Records collected over all buckets in one run.
MaxRecords == 4
\* Times (ms) a record carries.
StatTimes == {0, 1}
\* Number of stations on link 1 and on link 2.
nSldLink1Sta == 2
nSldLink2Sta == 1

\* Node ids: the AP is node 0, the stations follow.
Link1Nodes == 1..nSldLink1Sta
Link2Nodes == (1 + nSldLink1Sta)..(nSldLink1Sta + nSldLink2Sta)
\* <<node, link>> of the buckets the stations' packets fall in.
StatKeys == {<<i, 0>> : i \in Link1Nodes} \cup {<<i, 1>> : i \in Link2Nodes}

Record(enq, deq) == [m_enqueueMs |-> enq, m_dequeueMs |-> deq]

\* One bucket with enqueue times 0, 1, 5 and dequeue times 2, 6, 9.
ExampleRecords == <<Record(0, 2), Record(1, 6), Record(5, 9)>>
ExampleInfo == <<1, 0>> :> ExampleRecords

\* Mutant of Max: the smaller of the two.
MaxAsMin(a, b) == IF a >= b THEN b ELSE a

\* std::max on two doubles.
Max(a, b) == IF a >= b THEN a ELSE b

\* Sum of f over the keys in S.
RECURSIVE SumKeys(_, _)
SumKeys(f, S) ==
    IF S = {}
    THEN 0
    ELSE LET k == CHOOSE x \in S : TRUE
         IN  f[k] + SumKeys(f, S \ {k})

TotalRecords(info) ==
    SumKeys([k \in DOMAIN info |-> Len(info[k])], DOMAIN info)

\* Iteration order of std::map<uint32_t, std::map<uint8_t, ...>>.
KeyBefore(a, b) == a[1] < b[1] \/ (a[1] = b[1] /\ a[2] < b[2])

\* The bucket the loop over successInfo visits next.
NextKey(done) ==
    CHOOSE k \in DOMAIN successInfo \ done :
        \A j \in DOMAIN successInfo \ done : j = k \/ KeyBefore(k, j)

\* The inner loop over the records with the two emplace_back.
EnqueueSeries(recs) == [i \in 1..Len(recs) |-> recs[i].m_enqueueMs]
DequeueSeries(recs) == [i \in 1..Len(recs) |-> recs[i].m_dequeueMs]

\* Mutant of HolSeries: the dequeue time of the previous record is ignored.
HolSeriesEnqueueOnly(enq, deq) == enq

\* The loop that fills holTimeMap, from index i on (sequences count from 1).
RECURSIVE HolLoop(_, _, _, _)
HolLoop(enq, deq, i, hol) ==
    IF i > Len(enq)
    THEN hol
    ELSE HolLoop(enq, deq, i + 1,
                 Append(hol, IF i = 1
                             THEN enq[i]
                             ELSE Max(enq[i], deq[i - 1])))

HolSeries(enq, deq) == HolLoop(enq, deq, 1, <<>>)

\* Mutant of EraseFirst: the last element is removed.
EraseLast(v) == SubSeq(v, 1, Len(v) - 1)

\* v.erase(v.begin()) on a vector that is not empty.
EraseFirst(v) == Tail(v)

\* v.erase(v.begin()) on an empty vector has undefined behaviour (begin()
\* is end()): the library moves the elements after begin(), a range of
\* size -1, and the process is terminated by the memory fault.
EraseOnEmptyOutcomes == {"crash"}

\* What the erase of the first element of series v can do.
EraseOutcomes(v) == IF v = <<>> THEN EraseOnEmptyOutcomes ELSE {"erased"}

\* The loop "total += a[i] - b[i]" over the trimmed series.
RECURSIVE TotalLoop(_, _, _)
TotalLoop(a, b, i) ==
    IF i > Len(a) THEN 0 ELSE (a[i] - b[i]) + TotalLoop(a, b, i + 1)

\* Mutant of MeanDivisor: the divisor is the count itself.
MeanDivisorUntrimmed(n) == n

\* finalResults.m_numSuccessPerNodeLink[node][link] - 1.
MeanDivisor(n) == n - 1

\* The keys of map m whose node is in nodes.
KeysOf(m, nodes) == {k \in DOMAIN m : k[1] \in nodes}

\* Mutant of NumSldSuccess: one is added per bucket instead of per packet.
NumSldBuckets(info, nodes) == Cardinality(KeysOf(info, nodes))

\* numSldSuccessPerLink[l]: one per record of every link of the nodes.
NumSldSuccess(info, nodes) ==
    SumKeys([k \in DOMAIN info |-> Len(info[k])], KeysOf(info, nodes))

\* sldQueDelayPerLinkTotal[l] / sldAccDelayPerLinkTotal[l].
SldDelayTotal(totals, nodes) == SumKeys(totals, KeysOf(totals, nodes))

\* During Simulator::Run the statistics helper stores one record of a
\* delivered packet.
RecordSuccess(key, enq, deq) ==
    /\ statPc = "run"
    /\ TotalRecords(successInfo) < MaxRecords
    /\ successInfo' =
           IF key \in DOMAIN successInfo
           THEN [successInfo EXCEPT ![key] = Append(@, Record(enq, deq))]
           ELSE successInfo @@ (key :> <<Record(enq, deq)>>)
    /\ UNCHANGED <<statPc, statDone, numSuccessPerNodeLink, enqueueTimeMap,
                   dequeueTimeMap, holTimeMap, totalQueuingDelayPerNodeLink,
                   totalAccessDelayPerNodeLink, meanQueuingDelayPerNodeLink,
                   meanAccessDelayPerNodeLink, sldMeanQueDelayLink1,
                   sldMeanAccDelayLink1>>
    /\ UNCHANGED <<progVars, schedVars, aborted, obsVars, arrival>>

\* Mutant of GetSuccessInfoMap: a bucket is handed out for every station,
\* empty when the station has no record.
GetSuccessInfoMapAllStations(info) ==
    [k \in StatKeys |-> IF k \in DOMAIN info THEN info[k] ELSE <<>>]

\* wifiTxStats.GetSuccessInfoMap(): a copy of the helper's map, which has a
\* key for the buckets a record was stored in and for no other.
GetSuccessInfoMap(info) == info

\* Simulator::Run returns; GetStatistics and GetSuccessInfoMap.  The helper
\* counts the successes of a bucket from the records it hands out.
GetStatistics ==
    /\ statPc = "run"
    /\ successInfo' = GetSuccessInfoMap(successInfo)
    /\ numSuccessPerNodeLink' =
           [k \in DOMAIN successInfo' |-> Len(successInfo'[k])]
    /\ statPc' = IF DOMAIN successInfo' = {} THEN "sld" ELSE "series"
    /\ UNCHANGED <<statDone, enqueueTimeMap,
                   dequeueTimeMap, holTimeMap, totalQueuingDelayPerNodeLink,
                   totalAccessDelayPerNodeLink, meanQueuingDelayPerNodeLink,
                   meanAccessDelayPerNodeLink, sldMeanQueDelayLink1,
                   sldMeanAccDelayLink1>>
    /\ UNCHANGED <<progVars, schedVars, aborted, obsVars, arrival>>

\* First loop over successInfo, one bucket: the three series are filled.
BuildSeries ==
    /\ statPc = "series"
    /\ LET k == NextKey(statDone)
           enq == EnqueueSeries(successInfo[k])
           deq == DequeueSeries(successInfo[k])
       IN  /\ enqueueTimeMap' = enqueueTimeMap @@ (k :> enq)
           \* An entry of dequeueTimeMap and of holTimeMap is created by
           \* the first emplace_back; the entry of enqueueTimeMap also by
           \* the size() of the loop condition.
           /\ dequeueTimeMap' = IF successInfo[k] = <<>>
                                THEN dequeueTimeMap
                                ELSE dequeueTimeMap @@ (k :> deq)
           /\ holTimeMap' = IF successInfo[k] = <<>>
                            THEN holTimeMap
                            ELSE holTimeMap @@ (k :> HolSeries(enq, deq))
    /\ statPc' = "trim"
    /\ UNCHANGED <<statDone, successInfo, numSuccessPerNodeLink,
                   totalQueuingDelayPerNodeLink,
                   totalAccessDelayPerNodeLink, meanQueuingDelayPerNodeLink,
                   meanAccessDelayPerNodeLink, sldMeanQueDelayLink1,
                   sldMeanAccDelayLink1>>
    /\ UNCHANGED <<progVars, schedVars, aborted, obsVars, arrival>>

\* First loop, same bucket: "remove the first element" of the three series.
TrimSeries ==
    /\ statPc = "trim"
    /\ LET k == NextKey(statDone)
           last == DOMAIN successInfo \ statDone = {k}
       IN  \E out \in EraseOutcomes(enqueueTimeMap[k]) :
               IF out = "crash"
               THEN \* The erase of line 721, on the series of enqueue times.
                    /\ statPc' = "crash"
                    /\ UNCHANGED <<enqueueTimeMap, dequeueTimeMap, holTimeMap,
                                   statDone>>
               ELSE /\ enqueueTimeMap' =
                           [enqueueTimeMap EXCEPT ![k] = EraseFirst(@)]
                    /\ dequeueTimeMap' =
                           [dequeueTimeMap EXCEPT ![k] = EraseFirst(@)]
                    /\ holTimeMap' =
                           [holTimeMap EXCEPT ![k] = EraseFirst(@)]
                    /\ statDone' = IF last THEN {} ELSE statDone \cup {k}
                    /\ statPc' = IF last THEN "totals" ELSE "series"
    /\ UNCHANGED <<successInfo, numSuccessPerNodeLink,
                   totalQueuingDelayPerNodeLink,
                   totalAccessDelayPerNodeLink, meanQueuingDelayPerNodeLink,
                   meanAccessDelayPerNodeLink, sldMeanQueDelayLink1,
                   sldMeanAccDelayLink1>>
    /\ UNCHANGED <<progVars, schedVars, aborted, obsVars, arrival>>

\* Second loop over successInfo, one bucket: totals and means.
ComputeMeans ==
    /\ statPc = "totals"
    /\ LET k == NextKey(statDone)
           last == DOMAIN successInfo \ statDone = {k}
           que == TotalLoop(holTimeMap[k], enqueueTimeMap[k], 1)
           acc == TotalLoop(dequeueTimeMap[k], holTimeMap[k], 1)
           div == MeanDivisor(numSuccessPerNodeLink[k])
       IN  /\ totalQueuingDelayPerNodeLink' =
                  totalQueuingDelayPerNodeLink @@ (k :> que)
           /\ totalAccessDelayPerNodeLink' =
                  totalAccessDelayPerNodeLink @@ (k :> acc)
           /\ meanQueuingDelayPerNodeLink' =
                  meanQueuingDelayPerNodeLink @@ (k :> Div(que, div))
           /\ meanAccessDelayPerNodeLink' =
                  meanAccessDelayPerNodeLink @@ (k :> Div(acc, div))
           /\ statDone' = IF last THEN {} ELSE statDone \cup {k}
           /\ statPc' = IF last THEN "sld" ELSE "totals"
    /\ UNCHANGED <<successInfo, numSuccessPerNodeLink, enqueueTimeMap,
                   dequeueTimeMap, holTimeMap, sldMeanQueDelayLink1,
                   sldMeanAccDelayLink1>>
    /\ UNCHANGED <<progVars, schedVars, aborted, obsVars, arrival>>

\* The mean delays of the stations of link 1, over all their buckets.
SldMeans ==
    /\ statPc = "sld"
    /\ LET num == NumSldSuccess(successInfo, Link1Nodes)
       IN  /\ sldMeanQueDelayLink1' =
                  Div(SldDelayTotal(totalQueuingDelayPerNodeLink, Link1Nodes),
                      num)
           /\ sldMeanAccDelayLink1' =
                  Div(SldDelayTotal(totalAccessDelayPerNodeLink, Link1Nodes),
                      num)
    /\ statPc' = "done"
    /\ UNCHANGED <<statDone, successInfo, numSuccessPerNodeLink,
                   enqueueTimeMap, dequeueTimeMap, holTimeMap,
                   totalQueuingDelayPerNodeLink,
                   totalAccessDelayPerNodeLink, meanQueuingDelayPerNodeLink,
                   meanAccessDelayPerNodeLink>>
    /\ UNCHANGED <<progVars, schedVars, aborted, obsVars, arrival>>

StatInit ==
    /\ ClientInit(TimeSlotValues, {Rat(1, 2)})
    /\ m_maxPackets = 0
    /\ m_optionalTidPr = Rat(0, 1)
    /\ arrival = NoArrival
    /\ \E info \in {EmptyMap, ExampleInfo} : StatStart("run", info)

StatNext ==
    \/ \E key \in StatKeys, enq \in StatTimes, deq \in StatTimes :
           RecordSuccess(key, enq, deq)
    \/ GetStatistics
    \/ BuildSeries
    \/ TrimSeries
    \/ ComputeMeans
    \/ SldMeans

StatSpec == StatInit /\ [][StatNext]_vars

\* ------------------------------------------------------------- claims
\* A Send has just run past its opening assertion.
SendExecuted == lastOp = "Send" /\ aborted # "expired"

\* C1: after any sequence of Start, Stop and Send firings at most one Send
\* event is pending, and the assertion at the top of Send never fails.
C1_AtMostOnePendingSend ==
    /\ Cardinality(Pending) <= 1
    /\ aborted # "expired"

\* C2: once Stop has been called, no Send executes until Start is called
\* again: a Send only ever executes while Start was the last lifecycle call.
C2_NoSendAfterStop == SendExecuted => running

\* C3: Stop on a source that has no transport does not fail.
C3_StopWithoutTransportIsSafe ==
    (lastOp = "Stop" /\ m_socket = NullSocket) => aborted = "none"

\* C4: a source with maxPackets = N > 0, started once and never stopped,
\* sends at most N packets, has a Send armed as long as fewer than N were
\* sent, and after the N-th has none armed while it stays Running with its
\* transport open.
C4_MaxPacketsThenQuiescent ==
    (m_maxPackets > 0 /\ startCount = 1 /\ ~everStopped /\ aborted = "none") =>
        /\ m_sent <= m_maxPackets
        /\ m_sent < m_maxPackets => Pending = {m_sendEvent}
        /\ m_sent = m_maxPackets =>
               /\ Pending = {}
               /\ IsExpired(m_sendEvent)
               /\ running
               /\ m_socket.state = "open"

C4_Witness ==
    /\ m_maxPackets = 2 /\ m_sent = 2
    /\ startCount = 1 /\ ~everStopped
    /\ SendExecuted /\ aborted = "none"

\* C5: with maxPackets > 0, sentCount never exceeds maxPackets.
C5_SentNeverExceedsMax == m_maxPackets > 0 => m_sent <= m_maxPackets

\* C6: while the peer was never set the source has no transport, no armed or
\* executed Send, and a Start ends the run.
C6_StartWithoutPeerAborts ==
    /\ ~m_peerAddressSet =>
           /\ m_socket = NullSocket
           /\ queue = {}
           /\ m_sendEvent = NoEvent
           /\ m_sent = 0
    /\ (lastOp = "Start" /\ ~m_peerAddressSet) => aborted = "peer"

C6_Witness == lastOp = "Start" /\ aborted = "peer"

\* C7: Start with the peer set makes the source Running with a Send armed
\* at the time of the call, and the first Send after a Start executes at
\* the simulation time of that Start.
C7_FirstSendAtStartTime ==
    /\ (lastOp = "Start" /\ aborted = "none") =>
           /\ running
           /\ m_sendEvent \in Pending
           /\ m_sendEvent.ts = curTs
           /\ startTs = curTs
    /\ (SendExecuted /\ lastSend.first /\ running) => curTs = startTs

C7_Witness ==
    /\ SendExecuted /\ lastSend.first /\ running
    /\ everStopped
    /\ curTs > 0

\* C8: every execution of Send adds exactly one to sentCount, whatever the
\* transport reports, and no other operation changes sentCount.
C8_SendCountsOnce ==
    [][/\ (lastOp' = "Send" /\ aborted' # "expired") => m_sent' = m_sent + 1
       /\ m_sent' # m_sent => lastOp' = "Send"]_vars

C8_Witness == SendExecuted /\ ~lastSend.ok /\ m_sent = 2

\* C9: whether the next Send is armed, and when, depends on sentCount,
\* maxPackets and the interval draw only, not on the transmission result;
\* Send leaves the source Running.
C9_FailureDoesNotAlterScheduling ==
    [][(lastOp' = "Send" /\ aborted' = "none") =>
          /\ running' = running
          /\ m_socket'.state = m_socket.state
          /\ IF m_sent + 1 < m_maxPackets \/ m_maxPackets = 0
             THEN /\ m_sendEvent' \in Pending'
                  /\ m_sendEvent' \notin queue
                  /\ \E num \in NumIntervalOutcomes(lastSend'.u,
                                                     m_bernoulliPr) :
                         m_sendEvent'.ts = curTs' + num.k * m_timeSlot
             ELSE /\ m_sendEvent' = m_sendEvent
                  /\ queue' = queue \ {NextEvent}]_vars

C9_Witness ==
    /\ SendExecuted /\ aborted = "none"
    /\ ~lastSend.ok
    /\ m_socket.state = "open"
    /\ m_sendEvent \in Pending
    /\ running

\* C10: whenever optional = primary when a Send executes, the transmitted
\* packet carries the primary priority.
C10_EqualTidsSendPrimary ==
    (SendExecuted /\ lastSend.ok /\ m_optionalTid = m_priority) =>
        lastSend.tag = m_priority

\* C11: when optional differs from primary, a Send draws v and puts the
\* optional tag on the socket if v < optionalProbability and the primary
\* tag otherwise, before it transmits; with probability 0 the tag is always
\* the primary one, with probability 1 always the optional one.
C11_OptionalTidDraw ==
    (SendExecuted /\ m_optionalTid # m_priority) =>
        /\ lastSend.drewTid
        /\ lastSend.v \in UniformValues
        /\ lastSend.tag = IF RatLess(lastSend.v, m_optionalTidPr)
                          THEN m_optionalTid
                          ELSE m_priority
        /\ m_socket.priority = lastSend.tag
        /\ m_optionalTidPr = Rat(0, 1) => lastSend.tag = m_priority
        /\ m_optionalTidPr = Rat(1, 1) => lastSend.tag = m_optionalTid

\* The draw equals the probability: the primary tag is used.
C11_Witness ==
    /\ SendExecuted /\ lastSend.ok
    /\ m_optionalTid # m_priority
    /\ m_optionalTidPr = Rat(1, 2) /\ lastSend.v = Rat(1, 2)
    /\ lastSend.tag = m_priority

RECURSIVE Pow(_, _)
Pow(b, k) == IF k = 0 THEN 1 ELSE b * Pow(b, k - 1)

\* The draw u is above the fraction pw: the doubles next to a fraction are
\* nearer to it than any other fraction of the model.
DrawAbove(u, pw) ==
    \/ u.n * pw.d > u.d * pw.n
    \/ u.n * pw.d = u.d * pw.n /\ Ulp(u) > 0

\* floor(log(u) / log(1 - p)) + 1 in exact arithmetic, for u and p in
\* (0,1): the least k >= 1 with (1-p)^k < u; pw is (1-p)^k.
RECURSIVE ExactK(_, _, _, _)
ExactK(u, p, k, pw) ==
    IF DrawAbove(u, pw)
    THEN k
    ELSE ExactK(u, p, k + 1, [n |-> pw.n * (p.d - p.n), d |-> pw.d * p.d])

\* C12: for every p in (0,1), every slot T > 0 and every draw u the
\* interval computed is k * T for an integer k >= 1, where k is
\* floor(log(u) / log(1 - p)) + 1, that is (1-p)^k < u <= (1-p)^(k-1).
C12_IntervalIsSlotMultipleAsStated ==
    (/\ arrival.status # "none"
     /\ m_bernoulliPr.n > 0
     /\ PrBelowOne(m_bernoulliPr)) =>
        /\ arrival.status = "ok"
        /\ arrival.k >= 1
        /\ arrival.interval = arrival.k * m_timeSlot
        /\ LET p == PlainPr(m_bernoulliPr)
           IN  arrival.k =
                   ExactK(arrival.u, p, 1, [n |-> p.d - p.n, d |-> p.d])

\* C13: with p >= 1 the interval computation ends the run instead of
\* returning an interval: a Send that executes with such a p arms no next
\* Send, and no second Send ever executes.
C13_PrAtLeastOneAborts ==
    ~RatLess(m_bernoulliPr, Rat(1, 1)) =>
        /\ SendExecuted =>
               /\ aborted = "pr"
               /\ IsExpired(m_sendEvent)
        /\ m_sent <= 1
        /\ m_sent = 1 => aborted = "pr"

C13_Witness ==
    /\ SendExecuted /\ aborted = "pr"
    /\ m_bernoulliPr = Rat(1, 1)
    /\ m_maxPackets = 0

\* C14: a configuration error (probability outside (0,1), or missing peer)
\* ends the run before any packet is transmitted and before sentCount
\* leaves 0.
C14_ConfigErrorAbortsBeforeSending ==
    aborted \in {"peer", "pr", "numInterval"} =>
        /\ m_sent = 0
        /\ ~lastSend.ok

\* C15: no packet is ever transmitted with a priority tag outside 0..7.
C15_TagWithinTidRange ==
    (SendExecuted /\ lastSend.ok) => OptionalTidAccepted(lastSend.tag)

\* C16: after the first Start no call changes the destination packets are
\* sent to (the address the socket is connected to) or the destination they
\* are reported against (m_peerAddress, handed to the Tx trace).
C16_PeerFixedAfterStart ==
    [][startCount > 0 =>
          /\ m_socket'.peer = m_socket.peer
          /\ m_peerAddress' = m_peerAddress]_vars

\* ---- the statistics pass ----
\* Bucket k has its three series filled and not yet trimmed.
PreTrim(k) == statPc = "trim" /\ k = NextKey(statDone)

\* Bucket k has its three series trimmed.
Trimmed(k) == k \in DOMAIN holTimeMap /\ ~PreTrim(k)

\* Head-of-line time, queuing delay and access delay of record i >= 2 of
\* the records r, as the specification defines them.
HolOf(r, i) == Max(r[i].m_enqueueMs, r[i - 1].m_dequeueMs)
QueuingOf(r, i) == HolOf(r, i) - r[i].m_enqueueMs
AccessOf(r, i) == r[i].m_dequeueMs - HolOf(r, i)

\* Sums of the delays of records 2..i.
RECURSIVE SumQueuing(_, _)
SumQueuing(r, i) == IF i < 2 THEN 0 ELSE QueuingOf(r, i) + SumQueuing(r, i - 1)
RECURSIVE SumAccess(_, _)
SumAccess(r, i) == IF i < 2 THEN 0 ELSE AccessOf(r, i) + SumAccess(r, i - 1)

\* C17: for every series of N >= 1 records the head-of-line series built
\* before trimming has holTime[0] = enqueueTime[0] and, for 0 < i < N,
\* holTime[i] = max(enqueueTime[i], dequeueTime[i-1]).
C17_HolBeforeTrim ==
    \A k \in DOMAIN successInfo :
        PreTrim(k) =>
            LET r == successInfo[k]
                h == holTimeMap[k]
            IN  /\ Len(r) >= 1
                /\ Len(h) = Len(r)
                /\ h[1] = r[1].m_enqueueMs
                /\ \A i \in 2..Len(r) : h[i] = HolOf(r, i)

\* Both arguments of max decide an element: the previous dequeue time for
\* record 2, the own enqueue time for record 3.
C17_Witness ==
    \E k \in DOMAIN successInfo :
        /\ PreTrim(k)
        /\ Len(successInfo[k]) >= 3
        /\ holTimeMap[k][2] > successInfo[k][2].m_enqueueMs
        /\ holTimeMap[k][3] > successInfo[k][2].m_dequeueMs

\* C18: for every bucket with N >= 1 records exactly the first element is
\* removed from the enqueue, dequeue and head-of-line series: each trimmed
\* series has length N-1, element j of it belongs to original record j+1,
\* and the first record contributes to no total.
C18_FirstSampleTrimmed ==
    \A k \in DOMAIN holTimeMap :
        Trimmed(k) =>
            LET r == successInfo[k]
                N == Len(r)
            IN  /\ N >= 1
                /\ Len(enqueueTimeMap[k]) = N - 1
                /\ Len(dequeueTimeMap[k]) = N - 1
                /\ Len(holTimeMap[k]) = N - 1
                /\ \A j \in 1..(N - 1) :
                       /\ enqueueTimeMap[k][j] = r[j + 1].m_enqueueMs
                       /\ dequeueTimeMap[k][j] = r[j + 1].m_dequeueMs
                       /\ holTimeMap[k][j] = HolOf(r, j + 1)
                /\ k \in DOMAIN totalQueuingDelayPerNodeLink =>
                       /\ totalQueuingDelayPerNodeLink[k] = SumQueuing(r, N)
                       /\ totalAccessDelayPerNodeLink[k] = SumAccess(r, N)

\* A bucket of three records is trimmed and totalled, and its first record
\* would have changed the access total.
C18_Witness ==
    \E k \in DOMAIN totalAccessDelayPerNodeLink :
        /\ Len(successInfo[k]) = 3
        /\ Len(holTimeMap[k]) = 2
        /\ successInfo[k][1].m_dequeueMs # successInfo[k][1].m_enqueueMs
        /\ totalQueuingDelayPerNodeLink[k] > 0

\* The part of C19 that is not its example: the two means of a bucket are
\* the totals over the trimmed series divided by successCount - 1, and
\* successCount is the number of records.
MeansAreTrimmedMeans ==
    \A k \in DOMAIN meanQueuingDelayPerNodeLink :
        LET r == successInfo[k]
            N == Len(r)
        IN  /\ numSuccessPerNodeLink[k] = N
            /\ meanQueuingDelayPerNodeLink[k] = Div(SumQueuing(r, N), N - 1)
            /\ meanAccessDelayPerNodeLink[k] = Div(SumAccess(r, N), N - 1)
            /\ Len(holTimeMap[k]) = N - 1

\* The bucket of the example has its means.
ExampleDone ==
    /\ <<1, 0>> \in DOMAIN meanQueuingDelayPerNodeLink
    /\ successInfo[<<1, 0>>] = ExampleRecords

\* C19 as stated: per bucket the means are total / (successCount - 1) over
\* the trimmed series, and enqueue [0,1,5], dequeue [2,6,9] gives mean
\* queuing delay 1 and mean access delay 0.
C19_MeansWithExampleAsStated ==
    /\ MeansAreTrimmedMeans
    /\ ExampleDone =>
           LET q == meanQueuingDelayPerNodeLink[<<1, 0>>]
               a == meanAccessDelayPerNodeLink[<<1, 0>>]
           IN  /\ q.d > 0 /\ q.n = 1 * q.d
               /\ a.d > 0 /\ a.n = 0 * a.d

\* C19, amended: per bucket the means are total / (successCount - 1) over
\* the trimmed series, and enqueue [0,1,5], dequeue [2,6,9] gives mean
\* queuing delay 1 and mean access delay 7/2.
C19_MeansWithExample ==
    /\ MeansAreTrimmedMeans
    /\ ExampleDone =>
           LET q == meanQueuingDelayPerNodeLink[<<1, 0>>]
               a == meanAccessDelayPerNodeLink[<<1, 0>>]
           IN  /\ q.d > 0 /\ q.n = 1 * q.d
               /\ a.d > 0 /\ 2 * a.n = 7 * a.d

C19_Witness ==
    /\ ExampleDone
    /\ meanAccessDelayPerNodeLink[<<1, 0>>] = Div(7, 2)
    /\ statPc = "done"

\* The buckets of the stations of link 1.
Link1Keys == KeysOf(successInfo, Link1Nodes)

\* C20: the mean delay reported for a group of flows is the sum of the
\* flows' total delays divided by the sum of their success counts (totals
\* 10 and 30 with counts 5 and 15 give 40/20 = 2), not the unweighted
\* average of the flows' means.
C20_CrossFlowMeanIsWeighted ==
    /\ statPc = "done" =>
           LET count == SumKeys(numSuccessPerNodeLink, Link1Keys)
           IN  /\ sldMeanQueDelayLink1 =
                      Div(SumKeys(totalQueuingDelayPerNodeLink, Link1Keys),
                          count)
               /\ sldMeanAccDelayLink1 =
                      Div(SumKeys(totalAccessDelayPerNodeLink, Link1Keys),
                          count)
    /\ LET m == Div(10 + 30, 5 + 15) IN m.n = 2 * m.d

\* Two flows of link 1 with a mean each, and the reported access mean
\* differs from the average of the two means.
C20_Witness ==
    /\ statPc = "done"
    /\ Link1Keys = {<<1, 0>>, <<2, 0>>}
    /\ LET a == meanAccessDelayPerNodeLink[<<1, 0>>]
           b == meanAccessDelayPerNodeLink[<<2, 0>>]
           m == sldMeanAccDelayLink1
       IN  /\ a.d > 0 /\ b.d > 0 /\ m.d > 0
           /\ m.n > 0
           /\ m.n * 2 * a.d * b.d # m.d * (a.n * b.d + b.n * a.d)

\* C21: a bucket whose successCount is 0 or 1 gets no mean computed by a
\* division: every quotient stored as a mean queuing or mean access delay
\* has a positive divisor (no division by zero or by a negative count).
C21_NoDivisionBySmallCount ==
    \A k \in DOMAIN meanQueuingDelayPerNodeLink :
        /\ meanQueuingDelayPerNodeLink[k].d > 0
        /\ meanAccessDelayPerNodeLink[k].d > 0

\* The (node, link) bucket k of a station holds no record.
NoRecord(k) == k \notin DOMAIN successInfo \/ successInfo[k] = <<>>

\* C22: a bucket with no record contributes nothing: it has no series, so
\* nothing is erased for it (the pass is never ended by an erase on an
\* empty series), no count is kept and nothing is divided for it, and it
\* has no total and no mean entry.
C22_EmptyBucketContributesNothing ==
    /\ statPc # "crash"
    /\ \A k \in StatKeys :
           NoRecord(k) =>
               /\ k \notin DOMAIN numSuccessPerNodeLink
               /\ k \notin DOMAIN enqueueTimeMap
               /\ k \notin DOMAIN dequeueTimeMap
               /\ k \notin DOMAIN holTimeMap
               /\ k \notin DOMAIN totalQueuingDelayPerNodeLink
               /\ k \notin DOMAIN totalAccessDelayPerNodeLink
               /\ k \notin DOMAIN meanQueuingDelayPerNodeLink
               /\ k \notin DOMAIN meanAccessDelayPerNodeLink

\* The pass has finished on a run in which station 1 delivered two or more
\* packets and station 2 none: station 1 has its totals and means, the SLD
\* means are those of station 1 alone, and station 2 has no entry.
C22_Witness ==
    /\ statPc = "done"
    /\ NoRecord(<<2, 0>>)
    /\ <<1, 0>> \in DOMAIN successInfo
    /\ Len(successInfo[<<1, 0>>]) >= 2
    /\ DOMAIN meanQueuingDelayPerNodeLink = DOMAIN successInfo
    /\ DOMAIN totalAccessDelayPerNodeLink = DOMAIN successInfo
    /\ <<2, 0>> \notin DOMAIN meanQueuingDelayPerNodeLink
    /\ sldMeanAccDelayLink1 =
           Div(totalAccessDelayPerNodeLink[<<1, 0>>],
               Len(successInfo[<<1, 0>>]))

\* C23: every Send that executes draws once from the interval stream and
\* at most once from the priority stream; the priority stream is drawn from
\* exactly when the optional TID differs from the priority, whatever
\* OptionalTidPr is; the tag is decided by the priority draw alone and the
\* interval to the next Send by the interval draw alone.
C23_OneDrawPerStream ==
    SendExecuted =>
        /\ lastSend.u \in UniformValues
        /\ lastSend.drewTid <=> (m_optionalTid # m_priority)
        /\ lastSend.drewTid =>
               /\ lastSend.v \in UniformValues
               /\ lastSend.tag = IF RatLess(lastSend.v, m_optionalTidPr)
                                 THEN m_optionalTid ELSE m_priority
        /\ ~lastSend.drewTid => lastSend.v = NoSend.v
        /\ m_sendEvent \in Pending =>
               LET qn == m_bernoulliPr.d - m_bernoulliPr.n
                   qd == m_bernoulliPr.d
                   u == lastSend.u
               IN  \E k \in 1..MaxTime :
                       /\ m_sendEvent.ts = curTs + k * m_timeSlot
                       /\ u.n * Pow(qd, k) > u.d * Pow(qn, k)
                       /\ u.n * Pow(qd, k - 1) <= u.d * Pow(qn, k - 1)

C23_Witness ==
    /\ SendExecuted
    /\ aborted = "none"
    /\ lastSend.drewTid
    /\ m_optionalTidPr = Rat(1, 2) /\ m_bernoulliPr = Rat(1, 2)
    /\ lastSend.v = Rat(1, 4) /\ lastSend.u = Rat(3, 4)
    /\ lastSend.tag = m_optionalTid
    /\ m_sendEvent \in Pending
    /\ m_sendEvent.ts = curTs + m_timeSlot

\* The model stops at its bounds: no event identifier or no time is left
\* for the Send that the pending Send would arm.
Horizon ==
    \/ nextUid > MaxUid
    \/ \E e \in Pending : e.ts + m_timeSlot > MaxTime

\* A source with MaxPackets 0 and a probability inside (0,1) that was
\* started once and not stopped, after its n-th Send.
UnboundedAfterSend(n) ==
    /\ m_maxPackets = 0
    /\ RatLess(Rat(0, 1), m_bernoulliPr) /\ RatLess(m_bernoulliPr, Rat(1, 1))
    /\ startCount = 1 /\ ~everStopped
    /\ SendExecuted /\ aborted = "none"
    /\ m_sent = n

\* C24: with MaxPackets 0 a started source never goes quiescent: every
\* Send that completes arms exactly one next Send, at now + k * TimeSlot
\* with k >= 1, whatever m_sent is, and under a fair scheduler a further
\* Send executes (m_sent grows) unless the application is stopped or
\* started again, or Simulator::Stop ends the run, first.
C24_UnboundedSourceKeepsSending ==
    /\ [](\A n \in 1..(MaxUid + 1) :
             UnboundedAfterSend(n) =>
                 /\ Pending = {m_sendEvent}
                 /\ \E k \in 1..MaxTime :
                        m_sendEvent.ts = curTs + k * m_timeSlot)
    /\ \A n \in 1..(MaxUid + 1) :
           UnboundedAfterSend(n) ~>
               (\/ SendExecuted /\ m_sent > n
                \/ everStopped
                \/ startCount # 1
                \/ aborted = "stopped"
                \/ Horizon)

C24_Witness ==
    /\ UnboundedAfterSend(2)
    /\ lastSend.ok
    /\ Pending = {m_sendEvent}
    /\ m_sendEvent.ts = curTs + m_timeSlot

\* C25: in every trimmed series, each head-of-line time is at least the
\* sample's enqueue time and at least the dequeue time of the record before
\* it, so no queuing delay is negative whatever the records are; and for a
\* sample whose dequeue time is at least its enqueue time and at least the
\* previous dequeue time, the access delay is not negative and queuing
\* delay plus access delay is dequeue time minus enqueue time.
C25_DelaysNonNegative ==
    \A k \in DOMAIN holTimeMap :
        Trimmed(k) =>
            \A j \in 1..Len(holTimeMap[k]) :
                LET hol == holTimeMap[k][j]
                    enq == enqueueTimeMap[k][j]
                    deq == dequeueTimeMap[k][j]
                    prev == successInfo[k][j].m_dequeueMs
                    queuing == hol - enq
                    access == deq - hol
                IN  /\ hol >= enq
                    /\ hol >= prev
                    /\ queuing >= 0
                    /\ (deq >= enq /\ deq >= prev) =>
                           /\ access >= 0
                           /\ queuing + access = deq - enq

\* A trimmed sample that waited behind the record before it and then for
\* the channel, next to the totals computed from it.
C25_Witness ==
    \E k \in DOMAIN totalQueuingDelayPerNodeLink :
        \E j \in 1..Len(holTimeMap[k]) :
            /\ holTimeMap[k][j] = successInfo[k][j].m_dequeueMs
            /\ holTimeMap[k][j] > enqueueTimeMap[k][j]
            /\ dequeueTimeMap[k][j] > holTimeMap[k][j]
            /\ totalQueuingDelayPerNodeLink[k] > 0
            /\ totalAccessDelayPerNodeLink[k] > 0
====
